---- MODULE Spec2Model ----
(***************************************************************************)
(* Model of src/app.py: the equal-weight portfolio back-test pipeline.     *)
(* One invocation = one press of the sidebar button: fan-out of one fetch  *)
(* worker per ticker, join, merge of the close prices into one frame,      *)
(* returns, growth, drawdown, chart and contribution ranking.              *)
(*                                                                         *)
(* Dates are trading-day numbers k in 1..MaxDate; trading day k falls on   *)
(* calendar day k * DayStep.  Prices are positive integers, a missing cell *)
(* (NaN) of a price frame is 0.  Computed values are exact rationals       *)
(* <<num, den>> in lowest terms with den > 0; <<0, 0>> is NaN.             *)
(***************************************************************************)
EXTENDS Integers, Sequences, FiniteSets, TLC

\* ---------------------------------------------------------------- bounds
MaxDate == 3
MaxPrice == 2
MaxTickers == 3
DayStep == 8

\* timedelta(days=15), the lookback buffer of the fetch window
LookbackDays == 15

Tickers == {"A", "B"}
Dates == 1..MaxDate
Day(k) == k * DayStep

\* ------------------------------------------------------------- rationals
Abs(x) == IF x < 0 THEN -x ELSE x

RECURSIVE Gcd(_, _)
Gcd(a, b) == IF b = 0 THEN a ELSE Gcd(b, a % b)

Norm(n, d) ==
    IF d = 0 THEN <<0, 0>>
    ELSE LET g == Gcd(Abs(n), Abs(d))
             s == IF d < 0 THEN -1 ELSE 1
         IN  <<s * (n \div g), s * (d \div g)>>

NaN == <<0, 0>>
IsNaN(x) == x[2] = 0
R(n) == <<n, 1>>
RAdd(x, y) == IF IsNaN(x) \/ IsNaN(y) THEN NaN
              ELSE Norm(x[1] * y[2] + y[1] * x[2], x[2] * y[2])
RSub(x, y) == IF IsNaN(x) \/ IsNaN(y) THEN NaN
              ELSE Norm(x[1] * y[2] - y[1] * x[2], x[2] * y[2])
RMul(x, y) == IF IsNaN(x) \/ IsNaN(y) THEN NaN
              ELSE Norm(x[1] * y[1], x[2] * y[2])
RDiv(x, y) == IF IsNaN(x) \/ IsNaN(y) THEN NaN
              ELSE Norm(x[1] * y[2], x[2] * y[1])
\* comparisons with NaN are false, as for floats
RLe(x, y) == ~IsNaN(x) /\ ~IsNaN(y) /\ x[1] * y[2] <= y[1] * x[2]
RLt(x, y) == ~IsNaN(x) /\ ~IsNaN(y) /\ x[1] * y[2] < y[1] * x[2]

\* ---------------------------------------------------------- sequences
Range(s) == {s[i] : i \in DOMAIN s}

\* ------------------------------------------------------------ provider
NoRows == [k \in Dates |-> 0]
Histories == [Dates -> 0..MaxPrice]
\* what the price-history provider holds for one ticker: it either errors
\* or has a close price on some of the trading days
ProviderAnswers ==
    {[err |-> TRUE, px |-> NoRows]} \cup {[err |-> FALSE, px |-> h] : h \in Histories}

\* rows of history h inside the requested window start..end (end is not
\* modelled: every trading day of the model is before it)
StockZhAHist(h, start) == [k \in Dates |-> IF Day(k) >= start THEN h[k] ELSE 0]

DfEmpty(df) == \A k \in Dates : df[k] = 0
DfDates(df) == {k \in Dates : df[k] # 0}

\* ------------------------------------------------------------- state
VARIABLES
    tickers,        \* the parsed ticker list, in input order
    userStart,      \* start_input as a calendar day
    provider,       \* ticker -> what the provider answers for it
    pc,             \* position of the main script
    wpc,            \* per list position: "queued" | "running" | "done"
    slot,           \* per list position: the worker's return value
    finished,       \* list positions in the order their calls returned
    results,        \* list(executor.map(...))
    closePrices,    \* close_prices
    dailyReturns,   \* daily_returns
    portfolioRet,   \* portfolio_ret
    cumRet,         \* cum_ret
    indivCumRet,    \* indiv_cum_ret
    drawdown,       \* drawdown
    chartRendered,  \* st.plotly_chart was called
    ranking,        \* rows of summary_df
    outcome         \* "none" | "TypeError" | "InsufficientData" | "ValueError" | "ok"

vars == <<tickers, userStart, provider, pc, wpc, slot, finished, results, closePrices,
          dailyReturns, portfolioRet, cumRet, indivCumRet, drawdown,
          chartRendered, ranking, outcome>>

inputs == <<tickers, userStart, provider>>
computed == <<dailyReturns, portfolioRet, cumRet, indivCumRet, drawdown>>
rendered == <<chartRendered, ranking>>

\* a worker's return value
Unset == [kind |-> "unset", ticker |-> "", hasDf |-> FALSE, df |-> NoRows]
RetNone == [kind |-> "none", ticker |-> "", hasDf |-> FALSE, df |-> NoRows]
RetTuple(t, has, d) == [kind |-> "tuple", ticker |-> t, hasDf |-> has, df |-> d]

EmptyFrame == [cols |-> <<>>, index |-> <<>>, val |-> [t \in {} |-> NoRows]]
EmptyReturns == [cols |-> <<>>, index |-> <<>>, val |-> [t \in {} |-> <<>>]]

TickerLists == UNION {[1..n -> Tickers] : n \in 1..MaxTickers}

FetchStart == userStart - LookbackDays

Init ==
    /\ tickers \in TickerLists
    /\ userStart \in {Day(k) : k \in 1..(MaxDate + 1)}
    /\ provider \in [Tickers -> ProviderAnswers]
    /\ \A t \in Tickers \ Range(tickers) : provider[t] = [err |-> TRUE, px |-> NoRows]
    /\ pc = "input"
    /\ wpc = <<>>
    /\ slot = <<>>
    /\ finished = <<>>
    /\ results = <<>>
    /\ closePrices = EmptyFrame
    /\ dailyReturns = EmptyReturns
    /\ portfolioRet = <<>>
    /\ cumRet = <<>>
    /\ indivCumRet = [t \in {} |-> <<>>]
    /\ drawdown = <<>>
    /\ chartRendered = FALSE
    /\ ranking = <<>>
    /\ outcome = "none"

\* ------------------------------------------------------------ fan-out
\* executor.map submits one call per list position
Submit ==
    /\ pc = "input"
    /\ pc' = "fetch"
    /\ wpc' = [i \in 1..Len(tickers) |-> "queued"]
    /\ slot' = [i \in 1..Len(tickers) |-> Unset]
    /\ UNCHANGED <<inputs, finished, results, closePrices, computed, rendered, outcome>>

\* max_workers = len(tickers): every queued call gets a thread
WorkerStart(i) ==
    /\ pc = "fetch"
    /\ wpc[i] = "queued"
    /\ wpc' = [wpc EXCEPT ![i] = "running"]
    /\ UNCHANGED <<inputs, pc, slot, finished, results, closePrices, computed, rendered, outcome>>

\* the future of call i receives the call's return value
SetResultByCompletion(s, i, r) ==
    LET j == CHOOSE n \in DOMAIN s : s[n].kind = "unset" /\ \A m \in 1..(n - 1) : s[m].kind # "unset"
    IN  [s EXCEPT ![j] = r]
SetResult(s, i, r) == [s EXCEPT ![i] = r]

\* fetch_single_stock: the provider call raises; except: return ticker, None
FetchRaise(i) ==
    /\ pc = "fetch"
    /\ wpc[i] = "running"
    /\ provider[tickers[i]].err
    /\ slot' = SetResult(slot, i, RetTuple(tickers[i], FALSE, NoRows))
    /\ wpc' = [wpc EXCEPT ![i] = "done"]
    /\ finished' = Append(finished, i)
    /\ UNCHANGED <<inputs, pc, results, closePrices, computed, rendered, outcome>>

\* fetch_single_stock: df is not empty; return ticker, df
FetchOk(i) ==
    /\ pc = "fetch"
    /\ wpc[i] = "running"
    /\ ~provider[tickers[i]].err
    /\ LET df == StockZhAHist(provider[tickers[i]].px, FetchStart)
       IN  /\ ~DfEmpty(df)
           /\ slot' = SetResult(slot, i, RetTuple(tickers[i], TRUE, df))
    /\ wpc' = [wpc EXCEPT ![i] = "done"]
    /\ finished' = Append(finished, i)
    /\ UNCHANGED <<inputs, pc, results, closePrices, computed, rendered, outcome>>

\* fetch_single_stock: df is empty; the if is not taken and the function
\* falls off its end, returning None
FetchEmpty(i) ==
    /\ pc = "fetch"
    /\ wpc[i] = "running"
    /\ ~provider[tickers[i]].err
    /\ DfEmpty(StockZhAHist(provider[tickers[i]].px, FetchStart))
    /\ slot' = SetResult(slot, i, RetNone)
    /\ wpc' = [wpc EXCEPT ![i] = "done"]
    /\ finished' = Append(finished, i)
    /\ UNCHANGED <<inputs, pc, results, closePrices, computed, rendered, outcome>>

\* list(executor.map(...)) and the exit of the with block return only when
\* every call has returned
JoinFirstOnly == wpc[1] = "done"
JoinReady == \A i \in DOMAIN wpc : wpc[i] = "done"

Join ==
    /\ pc = "fetch"
    /\ JoinReady
    /\ results' = slot
    /\ pc' = "align"
    /\ UNCHANGED <<inputs, wpc, slot, finished, closePrices, computed, rendered, outcome>>

\* ---------------------------------------------------------- alignment
DateSeq(S) == SelectSeq([k \in Dates |-> k], LAMBDA k : k \in S)
ColSet(f) == Range(f.cols)

\* close_prices[ticker] = df['收盘']: a frame that has no rows yet takes the
\* index of the assigned series; otherwise the series is reindexed on the
\* frame's index.  A column that exists is overwritten in place.
SetColumn(f, t, df) ==
    LET idx == IF Len(f.index) = 0 THEN DateSeq(DfDates(df)) ELSE f.index
        col == [k \in Dates |-> IF k \in Range(idx) THEN df[k] ELSE 0]
    IN  [cols  |-> IF t \in ColSet(f) THEN f.cols ELSE Append(f.cols, t),
         index |-> idx,
         val   |-> [c \in ColSet(f) \cup {t} |-> IF c = t THEN col ELSE f.val[c]]]

RECURSIVE MergeLoop(_, _, _)
\* for ticker, df in results: unpacking a None raises TypeError
MergeLoop(res, i, f) ==
    IF i > Len(res) THEN [crash |-> FALSE, frame |-> f]
    ELSE IF res[i].kind # "tuple" THEN [crash |-> TRUE, frame |-> f]
    ELSE IF res[i].hasDf THEN MergeLoop(res, i + 1, SetColumn(f, res[i].ticker, res[i].df))
    ELSE MergeLoop(res, i + 1, f)

\* the frame restricted to the rows whose date is in K
KeepPriceRows(f, K) ==
    [cols  |-> f.cols,
     index |-> SelectSeq(f.index, LAMBDA k : k \in K),
     val   |-> [c \in ColSet(f) |->
                  [k \in Dates |-> IF k \in Range(f.index) /\ k \in K THEN f.val[c][k] ELSE 0]]]

RowComplete(f) == {k \in Dates : \A c \in ColSet(f) : f.val[c][k] # 0}
RowNotAllMissing(f) == {k \in Dates : \E c \in ColSet(f) : f.val[c][k] # 0}

\* close_prices.dropna(inplace=True): how='any'
DropNaAll(f) == KeepPriceRows(f, RowNotAllMissing(f))
DropNa(f) == KeepPriceRows(f, RowComplete(f))

\* DataFrame.empty: some axis has length 0
EmptyNoColumns(f) == Len(f.cols) = 0
Empty(f) == Len(f.cols) = 0 \/ Len(f.index) = 0

Merged == MergeLoop(results, 1, EmptyFrame)

AlignTypeError ==
    /\ pc = "align"
    /\ Merged.crash
    /\ closePrices' = Merged.frame
    /\ outcome' = "TypeError"
    /\ pc' = "crashed"
    /\ UNCHANGED <<inputs, wpc, slot, finished, results, computed, rendered>>

\* st.error(...); st.stop()
AlignStop ==
    /\ pc = "align"
    /\ ~Merged.crash
    /\ Empty(DropNa(Merged.frame))
    /\ closePrices' = DropNa(Merged.frame)
    /\ outcome' = "InsufficientData"
    /\ pc' = "stopped"
    /\ UNCHANGED <<inputs, wpc, slot, finished, results, computed, rendered>>

AlignOk ==
    /\ pc = "align"
    /\ ~Merged.crash
    /\ ~Empty(DropNa(Merged.frame))
    /\ closePrices' = DropNa(Merged.frame)
    /\ pc' = "compute"
    /\ UNCHANGED <<inputs, wpc, slot, finished, results, computed, rendered, outcome>>

\* ------------------------------------------------------------ returns
Positions(n) == [j \in 1..n |-> j]

\* close_prices.pct_change(): row j against row j - 1, first row NaN
PctChange(f) ==
    [cols  |-> f.cols,
     index |-> f.index,
     val   |-> [c \in ColSet(f) |->
                  [j \in 1..Len(f.index) |->
                     IF j = 1 THEN NaN
                     ELSE RSub(RDiv(R(f.val[c][f.index[j]]), R(f.val[c][f.index[j - 1]])), R(1))]]]

\* the returns restricted to the row positions in P
KeepReturnRows(rf, P) ==
    LET pos == SelectSeq(Positions(Len(rf.index)), LAMBDA j : j \in P)
    IN  [cols  |-> rf.cols,
         index |-> [m \in 1..Len(pos) |-> rf.index[pos[m]]],
         val   |-> [c \in ColSet(rf) |-> [m \in 1..Len(pos) |-> rf.val[c][pos[m]]]]]

RowHasNoNaN(rf) == {j \in DOMAIN rf.index : \A c \in ColSet(rf) : ~IsNaN(rf.val[c][j])}
DropNaRows(rf) == KeepReturnRows(rf, RowHasNoNaN(rf))

\* daily_returns[daily_returns.index >= target_start_date]
OnOrAfterStart(rf) == {j \in DOMAIN rf.index : Day(rf.index[j]) >= userStart}
ClipToStart(rf) == KeepReturnRows(rf, OnOrAfterStart(rf))

DailyReturnsClipFirst(f) ==
    DropNaRows(PctChange(KeepPriceRows(f, {k \in Dates : Day(k) >= userStart})))
DailyReturns(f) == ClipToStart(DropNaRows(PctChange(f)))

RECURSIVE RowSum(_, _, _)
RowSum(rf, j, i) ==
    IF i = 0 THEN R(0) ELSE RAdd(RowSum(rf, j, i - 1), rf.val[rf.cols[i]][j])

\* daily_returns.mean(axis=1)
MeanOverInputList(rf) ==
    [j \in 1..Len(rf.index) |-> RDiv(RowSum(rf, j, Len(rf.cols)), R(Len(tickers)))]
Mean(rf) ==
    [j \in 1..Len(rf.index) |-> RDiv(RowSum(rf, j, Len(rf.cols)), R(Len(rf.cols)))]

RECURSIVE CumProd(_, _)
\* (1 + s).cumprod(), up to position j
CumProd(s, j) ==
    IF j = 0 THEN R(1) ELSE RMul(CumProd(s, j - 1), RAdd(R(1), s[j]))
GrowthOf(s) == [j \in 1..Len(s) |-> CumProd(s, j)]

RMax(x, y) == IF RLt(x, y) THEN y ELSE x
RECURSIVE RunMax(_, _)
RunMax(s, j) == IF j = 1 THEN s[1] ELSE RMax(RunMax(s, j - 1), s[j])
CumMaxFirst(s) == [j \in 1..Len(s) |-> s[1]]
CumMax(s) == [j \in 1..Len(s) |-> RunMax(s, j)]

\* (cum_ret - cum_ret.cummax()) / cum_ret.cummax()
Drawdown(c) == [j \in 1..Len(c) |-> RDiv(RSub(c[j], CumMax(c)[j]), CumMax(c)[j])]

Compute ==
    /\ pc = "compute"
    /\ LET dr == DailyReturns(closePrices)
           pr == Mean(dr)
           cr == GrowthOf(pr)
       IN  /\ dailyReturns' = dr
           /\ portfolioRet' = pr
           /\ cumRet' = cr
           /\ indivCumRet' = [c \in ColSet(dr) |-> GrowthOf(dr.val[c])]
           /\ drawdown' = Drawdown(cr)
    /\ pc' = "plotcfg"
    /\ UNCHANGED <<inputs, wpc, slot, finished, results, closePrices, rendered, outcome>>

\* ------------------------------------------------------------ rendering
\* pd.date_range(start=cum_ret.index.min(), ...): the min of an empty index
\* is NaT and date_range raises ValueError
PlotConfigValueError ==
    /\ pc = "plotcfg"
    /\ Len(cumRet) = 0
    /\ outcome' = "ValueError"
    /\ pc' = "crashed"
    /\ UNCHANGED <<inputs, wpc, slot, finished, results, closePrices, computed, rendered>>

PlotConfigOk ==
    /\ pc = "plotcfg"
    /\ Len(cumRet) > 0
    /\ pc' = "render"
    /\ UNCHANGED <<inputs, wpc, slot, finished, results, closePrices, computed, rendered, outcome>>

\* make_subplots ... st.plotly_chart(fig, ...)
Render ==
    /\ pc = "render"
    /\ chartRendered' = TRUE
    /\ pc' = "rank"
    /\ UNCHANGED <<inputs, wpc, slot, finished, results, closePrices, computed, ranking, outcome>>

\* indiv_cum_ret.iloc[-1] - 1, in column order
FinalPerf(cols, g) ==
    [i \in 1..Len(cols) |-> <<cols[i], RSub(g[cols[i]][Len(g[cols[i]])], R(1))>>]

RECURSIVE InsertDesc(_, _)
\* x goes behind every entry that is not smaller: ties keep their order
InsertDesc(s, x) ==
    IF Len(s) = 0 THEN <<x>>
    ELSE IF RLt(s[1][2], x[2]) THEN <<x>> \o s
    ELSE <<s[1]>> \o InsertDesc(Tail(s), x)

RECURSIVE SortPrefix(_, _)
SortPrefix(s, n) == IF n = 0 THEN <<>> ELSE InsertDesc(SortPrefix(s, n - 1), s[n])

\* .sort_values(ascending=False)
SortValuesUnsorted(s) == s
SortValuesDesc(s) == SortPrefix(s, Len(s))

\* final_perf, summary_df, st.table
Rank ==
    /\ pc = "rank"
    /\ ranking' = SortValuesDesc(FinalPerf(dailyReturns.cols, indivCumRet))
    /\ outcome' = "ok"
    /\ pc' = "done"
    /\ UNCHANGED <<inputs, wpc, slot, finished, results, closePrices, computed, chartRendered>>

Next ==
    \/ Submit
    \/ \E i \in DOMAIN wpc : WorkerStart(i)
    \/ \E i \in DOMAIN wpc : FetchRaise(i)
    \/ \E i \in DOMAIN wpc : FetchOk(i)
    \/ \E i \in DOMAIN wpc : FetchEmpty(i)
    \/ Join
    \/ AlignTypeError
    \/ AlignStop
    \/ AlignOk
    \/ Compute
    \/ PlotConfigValueError
    \/ PlotConfigOk
    \/ Render
    \/ Rank

Spec == Init /\ [][Next]_vars

\* ------------------------------------------------- what the inputs fix
\* the frame the provider returns for ticker t in this invocation
Fetched(t) == StockZhAHist(provider[t].px, FetchStart)
FetchErrored == {t \in Range(tickers) : provider[t].err}
FetchedNoRows == {t \in Range(tickers) : ~provider[t].err /\ DfEmpty(Fetched(t))}
Succeeded == Range(tickers) \ (FetchErrored \cup FetchedNoRows)
CommonDates == {k \in Dates : Succeeded # {} /\ \A t \in Succeeded : Fetched(t)[k] # 0}

NoPriceRows == Len(closePrices.index) = 0 \/ Len(closePrices.cols) = 0
PastJoin == pc \notin {"input", "fetch"}
PastAlign == PastJoin /\ pc # "align" /\ outcome # "TypeError"
PastCompute == PastAlign /\ pc \notin {"compute", "stopped"}
Terminated == pc \in {"stopped", "crashed", "done"}

\* C1: when some ticker's fetch fails (the provider raises, or returns no
\* rows) the batch is not aborted: the pipeline gets past the merge and the
\* PriceMatrix has exactly the tickers whose fetch succeeded as columns.
C1_FetchFailureIsolated ==
    (Terminated /\ Succeeded # Range(tickers))
        => (outcome # "TypeError" /\ ColSet(closePrices) = Succeeded)

\* C2: whenever alignment gave a non-empty PriceMatrix and the clipped
\* ReturnMatrix is empty, the pipeline ends with a reported NoDataInRange
\* error instead of going on to the plotting steps with empty series.
C2_NoDataInRangeReported ==
    (Terminated /\ PastAlign /\ ~NoPriceRows /\ Len(dailyReturns.index) = 0)
        => (pc = "stopped" /\ outcome = "NoDataInRange")

\* C3: whenever the PriceMatrix is empty after strict alignment the pipeline
\* reports InsufficientData and stops: no return, growth or drawdown series
\* is computed and neither the chart nor the ranking table is rendered.
C3_InsufficientDataStops ==
    (PastAlign /\ NoPriceRows)
        => /\ pc = "stopped"
           /\ outcome = "InsufficientData"
           /\ dailyReturns = EmptyReturns
           /\ portfolioRet = <<>> /\ cumRet = <<>> /\ drawdown = <<>>
           /\ DOMAIN indivCumRet = {}
           /\ ~chartRendered
           /\ ranking = <<>>

\* two series were fetched and they have no date in common
C3_Witness ==
    /\ pc = "stopped"
    /\ outcome = "InsufficientData"
    /\ Cardinality(Succeeded) = 2
    /\ CommonDates = {}

\* C4: after the merge loop and dropna the row dates of the PriceMatrix are
\* exactly the dates common to all successfully fetched series, whichever
\* ticker comes first, and every cell holds the fetched close price.
C4_StrictIntersection ==
    PastAlign =>
        /\ Range(closePrices.index) = CommonDates
        /\ \A c \in ColSet(closePrices) : \A k \in Range(closePrices.index) :
              closePrices.val[c][k] # 0 /\ closePrices.val[c][k] = Fetched(c)[k]

\* the first ticker has a date the second lacks and the other way round,
\* and a common date survives
C4_Witness ==
    /\ pc = "compute"
    /\ Len(closePrices.cols) = 2
    /\ DfDates(Fetched(closePrices.cols[1])) \ DfDates(Fetched(closePrices.cols[2])) # {}
    /\ DfDates(Fetched(closePrices.cols[2])) \ DfDates(Fetched(closePrices.cols[1])) # {}
    /\ Len(closePrices.index) > 0

\* C5: the merge and the later stages never start while a fetch worker has
\* not returned: past the join every call is done and its slot is filled.
C5_JoinBarrier ==
    PastJoin => \A i \in DOMAIN wpc : wpc[i] = "done" /\ slot[i].kind # "unset"

\* the last submitted call returned first and the merge is about to start
C5_Witness ==
    /\ pc = "align"
    /\ Len(tickers) = 3
    /\ finished[1] = 3

\* C6: at every index t, drawdown[t] = (growth[t] - m) / m with m the
\* largest of growth[0..t]; it is <= 0, and 0 where growth[t] is a new
\* running maximum.
IsMaxUpTo(s, j, m) == (\E i \in 1..j : s[i] = m) /\ \A i \in 1..j : RLe(s[i], m)
C6_DrawdownBound ==
    PastCompute =>
        /\ Len(drawdown) = Len(cumRet)
        /\ \A j \in DOMAIN cumRet :
              /\ \E i \in 1..j :
                    /\ IsMaxUpTo(cumRet, j, cumRet[i])
                    /\ drawdown[j] = RDiv(RSub(cumRet[j], cumRet[i]), cumRet[i])
              /\ RLe(drawdown[j], R(0))
              /\ (\A i \in 1..j : RLe(cumRet[i], cumRet[j])) => drawdown[j] = R(0)

\* the first growth value is the running maximum (drawdown 0) and the second
\* lies below it
C6_Witness ==
    /\ PastCompute
    /\ Len(cumRet) >= 2
    /\ drawdown[1] = R(0)
    /\ RLt(drawdown[2], R(0))

\* C7: on every date of the clipped ReturnMatrix the portfolio return is
\* the unweighted mean over the distinct tickers whose fetch succeeded,
\* with the same N on every date, also when a ticker is repeated.
RECURSIVE SumOver(_, _)
SumOver(S, j) ==
    IF S = {} THEN R(0)
    ELSE LET t == CHOOSE x \in S : TRUE
         IN  RAdd(dailyReturns.val[t][j], SumOver(S \ {t}, j))
C7_EqualWeightMean ==
    PastCompute =>
        /\ ColSet(dailyReturns) = Succeeded
        /\ Len(portfolioRet) = Len(dailyReturns.index)
        /\ \A j \in DOMAIN portfolioRet :
              RMul(portfolioRet[j], R(Cardinality(Succeeded))) = SumOver(Succeeded, j)

\* a ticker is repeated in the list, two distinct tickers survive and their
\* returns differ on some date
C7_Witness ==
    /\ PastCompute
    /\ Len(tickers) = 3
    /\ tickers[1] = tickers[3]
    /\ Cardinality(Succeeded) = 2
    /\ \E j \in DOMAIN portfolioRet : dailyReturns.val["A"][j] # dailyReturns.val["B"][j]

\* C8: the ranking lists every surviving ticker exactly once, each with its
\* compounded growth over the clipped window minus 1 (last aligned price
\* over the aligned price before the first return date, minus 1), in
\* non-increasing order.
PricedRow(k) == /\ k \in Range(closePrices.index)
                /\ closePrices.index[1] # k
                /\ Day(k) >= userStart
FirstReturnDate == CHOOSE k \in Dates : PricedRow(k) /\ \A m \in Dates : PricedRow(m) => k <= m
LastDate == CHOOSE k \in CommonDates : \A m \in CommonDates : m <= k
PrevDate(k) == CHOOSE p \in CommonDates : p < k /\ \A m \in CommonDates : m < k => m <= p
TotalReturn(t) ==
    RSub(RDiv(R(Fetched(t)[LastDate]), R(Fetched(t)[PrevDate(FirstReturnDate)])), R(1))
C8_RankingSortedDescending ==
    pc = "done" =>
        /\ Len(ranking) = Cardinality(Succeeded)
        /\ {ranking[i][1] : i \in DOMAIN ranking} = Succeeded
        /\ \A i \in DOMAIN ranking : ranking[i][2] = TotalReturn(ranking[i][1])
        /\ \A i \in DOMAIN ranking : \A j \in DOMAIN ranking :
              i < j => RLe(ranking[j][2], ranking[i][2])

\* the second column has the strictly larger total return and is listed first
C8_Witness ==
    /\ pc = "done"
    /\ Len(ranking) = 2
    /\ ranking[1][1] = dailyReturns.cols[2]
    /\ RLt(ranking[2][2], ranking[1][2])

\* C9: every row of the ReturnMatrix is on or after userStartDate, the first
\* aligned date yields no row, every other aligned date on or after
\* userStartDate is present, in order, with its return taken against the
\* aligned date just before it, also when that date is before userStartDate.
C9_ReturnsBeforeClip ==
    PastCompute =>
        /\ Range(dailyReturns.index) = {k \in Dates : PricedRow(k)}
        /\ \A i \in DOMAIN dailyReturns.index : \A j \in DOMAIN dailyReturns.index :
              i < j => dailyReturns.index[i] < dailyReturns.index[j]
        /\ \A j \in DOMAIN dailyReturns.index : \A c \in ColSet(dailyReturns) :
              LET k == dailyReturns.index[j]
                  p == PrevDate(k)
              IN  /\ Day(k) >= userStart
                  /\ Len(dailyReturns.val[c]) = Len(dailyReturns.index)
                  /\ dailyReturns.val[c][j] =
                        Norm(Fetched(c)[k] - Fetched(c)[p], Fetched(c)[p])

\* the first return row is taken against a date before userStartDate and
\* the price moved
C9_Witness ==
    /\ PastCompute
    /\ Len(dailyReturns.index) >= 1
    /\ Day(PrevDate(dailyReturns.index[1])) < userStart
    /\ \E c \in ColSet(dailyReturns) : dailyReturns.val[c][1] # R(0)

\* C10: the merged result is fixed by the ticker list and the provider's
\* answers, whatever the order in which the workers return: each slot holds
\* the result of its own ticker from the moment its call returns, and the
\* PriceMatrix has one column per surviving ticker in input order.
ResultOf(t) ==
    IF provider[t].err THEN RetTuple(t, FALSE, NoRows)
    ELSE IF DfEmpty(Fetched(t)) THEN RetNone
    ELSE RetTuple(t, TRUE, Fetched(t))
RECURSIVE FirstOccurrences(_, _)
FirstOccurrences(s, n) ==
    IF n = 0 THEN <<>>
    ELSE LET r == FirstOccurrences(s, n - 1)
         IN  IF s[n] \in Succeeded /\ s[n] \notin Range(r) THEN Append(r, s[n]) ELSE r
C10_CompletionOrderIrrelevant ==
    /\ \A i \in DOMAIN slot :
          slot[i] = IF wpc[i] = "done" THEN ResultOf(tickers[i]) ELSE Unset
    /\ PastJoin => results = [i \in DOMAIN tickers |-> ResultOf(tickers[i])]
    /\ (PastJoin /\ pc # "align") => (outcome = "TypeError" <=> FetchedNoRows # {})
    /\ PastAlign =>
          /\ closePrices.cols = FirstOccurrences(tickers, Len(tickers))
          /\ closePrices.index = DateSeq(CommonDates)
          /\ closePrices.val = [c \in Succeeded |->
                [k \in Dates |-> IF k \in CommonDates THEN Fetched(c)[k] ELSE 0]]

\* the workers returned in reverse input order and two columns were merged
C10_Witness ==
    /\ pc = "compute"
    /\ Len(tickers) = 2
    /\ finished = <<2, 1>>
    /\ closePrices.cols = tickers
====
